---- MODULE Spec2Model ----
(***************************************************************************)
(* A state-machine model of the numeric and file-corruption utilities of   *)
(* src/src/utils1.c (leptonica): lept_isPrime, findNextLargerPrime,        *)
(* genRandomIntOnInterval, fileCorruptByDeletion, fileCorruptByMutation,   *)
(* fileReplaceBytes, l_hashStringToUint64, l_hashStringToUint64Fast,       *)
(* lept_floor, lept_ceiling, convertIntToGrayCode, and of the message sink *)
(* (leptSetStderrHandler, lept_stderr).                                    *)
(*                                                                         *)
(* Machine widths.  TLC's integers are 32-bit, so the C types are modelled *)
(* at a reduced word size that keeps their order relations:                *)
(*      C type        real width            model width                    *)
(*      l_int32       32 bits               IntBits                        *)
(*      l_uint32      32 bits               IntBits                        *)
(*      l_uint64      64 bits               NBits   = 2 * IntBits          *)
(*      size_t        64 bits               NBits                          *)
(*      l_float32     24-bit significand    FltMant < IntBits - 1          *)
(*      l_float64     53-bit significand    DblMant, IntBits < DblMant     *)
(*                                                    < NBits              *)
(* All arithmetic wraps, rounds or overflows at these widths exactly where *)
(* the C code does at the real ones.                                       *)
(***************************************************************************)
EXTENDS Integers, Sequences, FiniteSets, TLC

\* Width in bits of l_int32 and l_uint32 (32 in the build).
IntBits == 5

\* Largest input file length that is explored.
MaxTotal == 20

\* loc and size are drawn from the multiples of 2^-FracBits.
FracBits == 3

\* Largest numerator of size (size = numerator / 2^FracBits).
MaxSize == 10

\* Longest string that is hashed.
MaxStr == 3

\* Longest history of calls on the message sink
MaxCalls == 4

RECURSIVE Pow2(_)
Pow2(k) == IF k = 0 THEN 1 ELSE 2 * Pow2(k - 1)

NBits == 2 * IntBits

FltMant == IntBits - 2

DblMant == NBits - 3

INT_MAX == Pow2(IntBits - 1) - 1

INT_MIN == -Pow2(IntBits - 1)

\* glibc: RAND_MAX = INT_MAX
RAND_MAX == INT_MAX

l_int32 == INT_MIN..INT_MAX

\* Integer conversion to l_uint64 / size_t: reduction modulo 2^NBits.
ToUint64(x) == x % Pow2(NBits)

\* Integer conversion to l_uint32: reduction modulo 2^IntBits.
ToUint32(x) == x % Pow2(IntBits)

\* Out-of-range integer conversion to l_int32 (implementation-defined;
\* two's-complement reduction as gcc and clang define it).
ToInt32(x) == ((x + Pow2(IntBits - 1)) % Pow2(IntBits)) - Pow2(IntBits - 1)

RECURSIVE BitLen(_)
BitLen(x) == IF x = 0 THEN 0 ELSE 1 + BitLen(x \div 2)

\* IEEE-754 round-to-nearest-even of the non-negative integer x (in any
\* fixed binary unit) to a significand of p bits.
RoundSig(p, x) ==
    IF x < Pow2(p) THEN x
    ELSE LET ulp == Pow2(BitLen(x) - p)
             q   == x \div ulp
             r   == x % ulp
         IN  IF 2 * r > ulp \/ (2 * r = ulp /\ q % 2 = 1)
             THEN (q + 1) * ulp
             ELSE q * ulp

isqrt(x) == CHOOSE s \in 0..Pow2(IntBits) : s * s <= x /\ (s + 1) * (s + 1) > x

\* (l_uint64)sqrt(x) for a double x holding a non-negative integer: the
\* correctly rounded square root, truncated.  The rounded root reaches
\* s + 1 exactly when sqrt(x) lies above s + 1 - ulp/2.
SqrtTrunc(x) ==
    LET s == isqrt(x)
        j == DblMant - BitLen(s) + 1
    IN  IF s * s = x \/ s = 0 THEN s
        ELSE IF x * Pow2(2 * j) > ((s + 1) * Pow2(j) - 1) * ((s + 1) * Pow2(j) - 1)
             THEN s + 1
             ELSE s

\* limit = (l_uint64)sqrt((l_float64)n);
SqrtLimit(n) == SqrtTrunc(RoundSig(DblMant, n))

\* for (div = 3; div < limit; div += 2) { ratio = n / div; if (ratio * div == n) ... }
\* div is an l_uint32 and wraps; cnt counts the trial divisions performed.
RECURSIVE TrialDiv(_, _, _, _)
TrialDiv(n, limit, div, cnt) ==
    IF div < limit
    THEN IF (n \div div) * div = n
         THEN [is_prime |-> 0, pfactor |-> div, ndiv |-> cnt + 1]
         ELSE TrialDiv(n, limit, ToUint32(div + 2), cnt + 1)
    ELSE [is_prime |-> 1, pfactor |-> 0, ndiv |-> cnt]

\* lept_isPrime with the even-number test skipped for n = 2
lept_isPrime_evenAbove2(n) ==
    IF n <= 0
    THEN [ret |-> 1, is_prime |-> 0, pfactor |-> 0, ndiv |-> 0]
    ELSE IF n % 2 = 0 /\ n > 2
         THEN [ret |-> 0, is_prime |-> 0, pfactor |-> 2, ndiv |-> 0]
         ELSE [ret |-> 0] @@ TrialDiv(n, SqrtLimit(n), 3, 0)

\* lept_isPrime(n, &is_prime, &factor)
lept_isPrime(n) ==
    IF n <= 0
    THEN [ret |-> 1, is_prime |-> 0, pfactor |-> 0, ndiv |-> 0]
    ELSE IF n % 2 = 0
         THEN [ret |-> 0, is_prime |-> 0, pfactor |-> 2, ndiv |-> 0]
         ELSE [ret |-> 0] @@ TrialDiv(n, SqrtLimit(n), 3, 0)

\* lept_isPrime tabulated over every l_uint64 (the function is pure; the
\* table is evaluated once).
isPrimeTable == [n \in 0..(Pow2(NBits) - 1) |-> lept_isPrime(n)]

\* srand(seed): the process-wide generator state becomes the seed.
srand(seed) == seed % (RAND_MAX + 1)

\* rand(): one step of the process-wide generator (a full-period linear
\* congruential generator over 0..RAND_MAX); the value returned is the
\* new state.
rand(s) == (5 * s + 3) % (RAND_MAX + 1)

\* The seed being ignored
Reseed_never(seed, s) == s

\* if (seed > 0) srand(seed);  the generator state after it, s before
Reseed(seed, s) == IF seed > 0 THEN srand(seed) ELSE s

\* (l_float64)a / (l_float64)b for integers 0 <= a <= b, b > 0: the
\* quotient rounded to DblMant bits, in units of 2^-(2 * DblMant).
DblDiv(a, b) ==
    LET x == a * Pow2(2 * DblMant)
        q == x \div b
        r == x % b
        ulp == Pow2(BitLen(q) - DblMant)
        hi  == q \div ulp
        lo  == (q % ulp) * b + r
    IN  IF a = 0 THEN 0
        ELSE IF 2 * lo > ulp * b \/ (2 * lo = ulp * b /\ hi % 2 = 1)
             THEN (hi + 1) * ulp
             ELSE hi * ulp

\* The set of results of an l_int32 operation whose mathematical value is
\* v: v itself when representable, anything otherwise (signed overflow is
\* undefined behaviour).
IntResult(v) == IF v \in l_int32 THEN {v} ELSE l_int32

\* genRandomIntOnInterval reseeding before it checks the interval
genRandomIntOnInterval_seedFirst(start, end, seed, s) ==
    LET s1 == IF seed > 0 THEN srand(seed) ELSE s
        s2 == rand(s1)
        Ranges == UNION { IntResult(d + 1) : d \in IntResult(end - start) }
        Scaled(range) == RoundSig(DblMant, range * DblDiv(s2, RAND_MAX))
                            \div Pow2(2 * DblMant)
        Defined(range) == /\ end - start \in l_int32
                          /\ end - start + 1 \in l_int32
                          /\ start + Scaled(range) \in l_int32
    IN  IF end < start
        THEN {[ret |-> 1, pval |-> 0, rs |-> s1, ub |-> FALSE]}
        ELSE UNION { { [ret |-> 0, pval |-> v, rs |-> s2, ub |-> ~Defined(range)] :
                         v \in IntResult(start + Scaled(range)) } :
                     range \in Ranges }

\* genRandomIntOnInterval drawing before it reseeds
genRandomIntOnInterval_drawFirst(start, end, seed, s) ==
    IF end < start
    THEN {[ret |-> 1, pval |-> 0, rs |-> s, ub |-> FALSE]}
    ELSE LET s2 == rand(s)
             s3 == IF seed > 0 THEN srand(seed) ELSE s2
             Ranges == UNION { IntResult(d + 1) : d \in IntResult(end - start) }
             Scaled(range) == RoundSig(DblMant, range * DblDiv(s2, RAND_MAX))
                                 \div Pow2(2 * DblMant)
             Defined(range) == /\ end - start \in l_int32
                               /\ end - start + 1 \in l_int32
                               /\ start + Scaled(range) \in l_int32
         IN  UNION { { [ret |-> 0, pval |-> v, rs |-> s3, ub |-> ~Defined(range)] :
                         v \in IntResult(start + Scaled(range)) } :
                     range \in Ranges }

\* genRandomIntOnInterval(start, end, seed, &val), from generator state s:
\* the set of possible [ret, pval, rs (generator state after), ub].
\*     range = (l_float64)(end - start + 1);
\*     *pval = start + (l_int32)(range * ((l_float64)rand() / (l_float64)RAND_MAX));
genRandomIntOnInterval(start, end, seed, s) ==
    IF end < start
    THEN {[ret |-> 1, pval |-> 0, rs |-> s, ub |-> FALSE]}
    ELSE LET s1 == IF seed > 0 THEN srand(seed) ELSE s
             s2 == rand(s1)
             Ranges == UNION { IntResult(d + 1) : d \in IntResult(end - start) }
             Scaled(range) == RoundSig(DblMant, range * DblDiv(s2, RAND_MAX))
                                 \div Pow2(2 * DblMant)
             Defined(range) == /\ end - start \in l_int32
                               /\ end - start + 1 \in l_int32
                               /\ start + Scaled(range) \in l_int32
         IN  UNION { { [ret |-> 0, pval |-> v, rs |-> s2, ub |-> ~Defined(range)] :
                         v \in IntResult(start + Scaled(range)) } :
                     range \in Ranges }

\* 1.0 and 0.5 in units of 2^-FracBits
One == Pow2(FracBits)

Half == Pow2(FracBits - 1)

\* if (loc + size > 1.0) size = 1.0 - loc;   (loc + size is an l_float32 sum)
ClampSize(loc, size) ==
    IF RoundSig(FltMant, loc + size) > One
    THEN RoundSig(FltMant, RoundSig(DblMant, One - loc))
    ELSE size

\* (l_int32)(frac * inbytes + 0.5): inbytes converts to l_float32, the
\* product is an l_float32, the sum an l_float64; a value beyond INT_MAX
\* makes the conversion undefined.
FracToBytes(frac, inbytes) ==
    IntResult(RoundSig(DblMant,
                  RoundSig(FltMant, frac * RoundSig(FltMant, inbytes)) + Half)
              \div One)

\* L_MIN / L_MAX of environ.h
L_MIN(x, y) == IF x < y THEN x ELSE y

L_MAX(x, y) == IF x > y THEN x ELSE y

\* locb = L_MIN(locb, inbytes - 1);  the comparison is made in size_t and
\* the result is converted back to l_int32.
ClampLoc(locb0, inbytes) ==
    ToInt32(L_MIN(ToUint64(locb0), ToUint64(inbytes - 1)))

\* sizeb = L_MAX(1, sizeb);  sizeb = L_MIN(sizeb, inbytes - locb);
ClampCount(sizeb0, locb, inbytes) ==
    ToInt32(L_MIN(ToUint64(L_MAX(1, sizeb0)), ToUint64(inbytes - locb)))

\* The byte range of both corruption functions: the set of possible
\* [locb, sizeb, ub] for valid loc and size.
ByteRange(loc, size, inbytes) ==
    { [locb  |-> ClampLoc(l0, inbytes),
       sizeb |-> ClampCount(s0, ClampLoc(l0, inbytes), inbytes),
       ub    |-> Cardinality(FracToBytes(loc, inbytes)) > 1
                 \/ Cardinality(FracToBytes(ClampSize(loc, size), inbytes)) > 1] :
      <<l0, s0>> \in FracToBytes(loc, inbytes)
                     \X FracToBytes(ClampSize(loc, size), inbytes) }

\* rembytes = inbytes - locb - sizeb;   (size_t arithmetic, stored in l_int32)
RemBytes(inbytes, locb, sizeb) == ToInt32(ToUint64(inbytes - locb - sizeb))

\* outbytes = inbytes - sizeb;   (size_t)
OutBytes(inbytes, sizeb) == ToUint64(inbytes - sizeb)

\* An access outside datain or dataout in the two copy loops of
\* fileCorruptByDeletion.
DeletionOutOfBounds(inbytes, locb, sizeb) ==
    \/ \E k \in 0..(locb - 1) : k >= OutBytes(inbytes, sizeb) \/ k >= inbytes
    \/ \E k \in 0..(RemBytes(inbytes, locb, sizeb) - 1) :
          \/ locb + k \notin 0..(OutBytes(inbytes, sizeb) - 1)
          \/ locb + sizeb + k \notin 0..(inbytes - 1)

\* dataout after LEPT_CALLOC and the two copy loops (in-bounds accesses).
DeletionOutput(datain, locb, sizeb) ==
    LET inbytes == Len(datain)
    IN  [ k \in 1..OutBytes(inbytes, sizeb) |->
            IF k - 1 \in 0..(locb - 1) /\ k <= inbytes
            THEN datain[k]
            ELSE IF k - 1 - locb \in 0..(RemBytes(inbytes, locb, sizeb) - 1)
                    /\ k + sizeb \in 1..inbytes
                 THEN datain[k + sizeb]
                 ELSE 0 ]

\* (l_uint8)(255.9 * ((l_float64)rand() / (l_float64)RAND_MAX)); 12 bits of
\* the 53-bit significand suffice for 255.9, so the product is taken exactly.
RandomByte(r) == (2559 * r) \div (10 * RAND_MAX)

\* A file that does not exist.
NoFile == <<-1>>

\* The input file of length total: byte k holds k (all bytes distinct and
\* non-zero), or every byte holds 255.
FileData(total, pat) == [k \in 1..total |-> IF pat = 1 THEN k ELSE 255]

(***************************************************************************)
(* The hash words.  The constants of the string hashes are 64-bit numbers, *)
(* so a hash word is kept at its full width, as its 8 base-256 digits,     *)
(* least significant first.                                                *)
(***************************************************************************)
\* sizeof(l_uint64)
U64Bytes == 8

\* The l_uint64 of value n, for 0 <= n < 2^31
ToDigits(n) ==
    [k \in 1..U64Bytes |-> IF k <= 4 THEN (n \div Pow2(8 * (k - 1))) % 256 ELSE 0]

Digit(a, k) == IF k \in 1..U64Bytes THEN a[k] ELSE 0

\* a + b modulo 2^64
RECURSIVE AddCarry(_, _, _)
AddCarry(a, b, k) ==
    IF k = 0 THEN 0 ELSE (a[k] + b[k] + AddCarry(a, b, k - 1)) \div 256

Add64(a, b) ==
    [k \in 1..U64Bytes |-> (a[k] + b[k] + AddCarry(a, b, k - 1)) % 256]

\* a * b modulo 2^64
RECURSIVE MulColumn(_, _, _, _)
MulColumn(a, b, k, j) ==
    IF j > k THEN 0 ELSE a[j] * b[k + 1 - j] + MulColumn(a, b, k, j + 1)

RECURSIVE MulCarry(_, _, _)
MulCarry(a, b, k) ==
    IF k = 0 THEN 0 ELSE (MulColumn(a, b, k, 1) + MulCarry(a, b, k - 1)) \div 256

Mul64(a, b) ==
    [k \in 1..U64Bytes |-> (MulColumn(a, b, k, 1) + MulCarry(a, b, k - 1)) % 256]

\* Bitwise exclusive or of two non-negative integers
RECURSIVE XorInt(_, _)
XorInt(x, y) ==
    IF x = 0 /\ y = 0 THEN 0
    ELSE ((x + y) % 2) + 2 * XorInt(x \div 2, y \div 2)

\* a ^ b
Xor64(a, b) == [k \in 1..U64Bytes |-> XorInt(a[k], b[k])]

\* a >> s
Shr64(a, s) ==
    LET q == s \div 8
        r == s % 8
    IN  [k \in 1..U64Bytes |->
            (Digit(a, k + q) \div Pow2(r))
              + (Digit(a, k + q + 1) % Pow2(r)) * Pow2(8 - r)]

\* a << s
Shl64(a, s) ==
    LET q == s \div 8
        r == s % 8
    IN  [k \in 1..U64Bytes |->
            ((Digit(a, k - q) * Pow2(r)) % 256)
              + (Digit(a, k - q - 1) \div Pow2(8 - r))]

\* The l_uint64 that a char converts to.  c is the byte in memory (1..255);
\* where plain char is signed (x86) a byte above 127 is a negative char and
\* is sign-extended, where it is unsigned (ARM) it is zero-extended.
CharToUint64(c, signedChar) ==
    IF signedChar /\ c > 127
    THEN [k \in 1..U64Bytes |-> IF k = 1 THEN c ELSE 255]
    ELSE ToDigits(c)

\* mulp = 26544357894361247 = 0x005E4DF3EF15909F
mulp == <<159, 144, 21, 239, 243, 77, 94, 0>>

\* while (*str) hash += (*str++ * mulp) ^ (hash >> 7);
RECURSIVE HashLoop(_, _, _)
HashLoop(str, hash, signedChar) ==
    IF str = <<>> THEN hash
    ELSE HashLoop(Tail(str),
                  Add64(hash, Xor64(Mul64(CharToUint64(Head(str), signedChar), mulp),
                                    Shr64(hash, 7))),
                  signedChar)

\* l_hashStringToUint64(str, &hash); str is the sequence of its bytes before
\* the terminating NUL.
l_hashStringToUint64(str, signedChar) ==
    IF str = <<>>
    THEN [ret |-> 1, phash |-> ToDigits(0)]
    ELSE LET hash == HashLoop(str, ToDigits(104395301), signedChar)
         IN  [ret |-> 0, phash |-> Xor64(hash, Shl64(hash, 37))]

\* for (p = (l_uint8 *)str; *p != '\0'; p++) h = 37 * h + *p;
RECURSIVE FastLoop(_, _)
FastLoop(str, h) ==
    IF str = <<>> THEN h
    ELSE FastLoop(Tail(str), Add64(Mul64(ToDigits(37), h), ToDigits(Head(str))))

\* l_hashStringToUint64Fast(str, &hash)
l_hashStringToUint64Fast(str) ==
    IF str = <<>>
    THEN [ret |-> 1, phash |-> ToDigits(0)]
    ELSE [ret |-> 0, phash |-> FastLoop(str, ToDigits(0))]

\* datain = l_binaryRead(filein, &inbytes): the bytes of the file; when the
\* file cannot be read, NULL with inbytes = 0 (no byte is read).
l_binaryRead(filein, readable) == IF readable THEN filein ELSE <<>>

\* l_binaryWrite(fileout, "w", data, nbytes): the file is created or
\* truncated and holds the first nbytes bytes of data.
l_binaryWrite(dataout, nbytes) == SubSeq(dataout, 1, nbytes)

\* newdata == NULL
NoData == <<-1>>

\* LEPT_CALLOC(nbytes, 1): TRUE when it returns a buffer.  mem tells whether
\* the heap has room; no request of half the address space or more is ever
\* granted, and a request of 0 bytes returns a buffer (glibc).
LEPT_CALLOC(nbytes, mem) == mem /\ nbytes < Pow2(NBits - 1)

\* for (i = a; i < lim; i++) with i an l_int32 and lim a size_t (the
\* comparison is made in size_t): the values of i for which the body runs,
\* and whether i++ overflows.  Past the overflow the loop stops (i wraps to
\* INT_MIN) or, with wide, goes on (i is kept in a 64-bit register).
RECURSIVE ForUnsigned(_, _, _)
ForUnsigned(a, lim, wide) ==
    IF ToUint64(a) < lim
    THEN IF a = INT_MAX /\ ~wide
         THEN [idx |-> {a}, ovf |-> TRUE]
         ELSE LET r == ForUnsigned(a + 1, lim, wide)
              IN  [idx |-> {a} \cup r.idx, ovf |-> r.ovf \/ a = INT_MAX]
    ELSE [idx |-> {}, ovf |-> FALSE]

\* fileReplaceBytes after l_binaryRead, datain holding inbytes bytes:
\*     warn      start + nbytes > inbytes   (l_int32 sum converted to size_t)
\*     outbytes  inbytes - nbytes + newsize (size_t)
\*     reads     the indices of datain that the copy loops read
\*     writes    the indices of dataout that the three loops store to
\*     dataout   the buffer after the loops (stores inside it only)
\*     ovf       an l_int32 addition or increment overflows
fileReplaceBytes(datain, start, nbytes, newdata, newsize0, wide) ==
    LET inbytes  == Len(datain)
        newsize  == IF newdata = NoData THEN 0 ELSE newsize0
        index0   == ToInt32(start + nbytes)
        outbytes == ToUint64(inbytes - nbytes + newsize)
        loop1    == 0..(start - 1)
        loop2    == ForUnsigned(start, ToUint64(start + newsize), wide)
        start2   == ToInt32(ToUint64(start + newsize))
        loop3    == ForUnsigned(start2, outbytes, wide)
        Index(k) == index0 + (k - start2)
    IN  [ warn     |-> ToUint64(index0) > inbytes,
          outbytes |-> outbytes,
          reads    |-> loop1 \cup { Index(k) : k \in loop3.idx },
          writes   |-> loop1 \cup loop2.idx \cup loop3.idx,
          dataout  |-> [ k \in 1..outbytes |->
                           IF k - 1 \in loop3.idx /\ Index(k - 1) \in 0..(inbytes - 1)
                           THEN datain[Index(k - 1) + 1]
                           ELSE IF k - 1 \in loop2.idx /\ k - start \in 1..newsize
                           THEN newdata[k - start]
                           ELSE IF k - 1 \in loop1 /\ k <= inbytes
                           THEN datain[k]
                           ELSE 0 ],
          ovf      |-> \/ start + nbytes \notin l_int32
                       \/ loop2.ovf \/ loop3.ovf
                       \/ index0 + Cardinality(loop3.idx) \notin l_int32 ]

\* The scan advancing by two candidates at a time
ScanNext_skip(i) == i + 2

\* i++ of the scan in findNextLargerPrime
ScanNext(i) == i + 1

(***************************************************************************)
(* Simple math functions.  An l_float32 argument fval is kept as the       *)
(* numerator of fval over 2^FracBits.                                      *)
(***************************************************************************)
\* |x|
Abs(x) == IF x < 0 THEN -x ELSE x

\* The l_float32 values within the range of l_int32
FloatsInIntRange ==
    { f \in (INT_MIN * One)..(INT_MAX * One) : RoundSig(FltMant, Abs(f)) = Abs(f) }

\* (l_int32)f: the fraction is discarded (truncation toward zero).  A value
\* outside l_int32 is undefined; the conversion instructions return INT_MIN
\* (x86) or saturate (ARM).
FloatToInt32(f) ==
    LET t == IF f >= 0 THEN f \div One ELSE -((-f) \div One)
    IN  IF t \in l_int32
        THEN {[v |-> t, ub |-> FALSE]}
        ELSE {[v |-> INT_MIN, ub |-> TRUE],
              [v |-> IF t > 0 THEN INT_MAX ELSE INT_MIN, ub |-> TRUE]}

\* (l_float32)v for an l_int32 v
Int32ToFloat(v) ==
    IF v >= 0 THEN RoundSig(FltMant, v) * One ELSE -(RoundSig(FltMant, -v) * One)

\* return (fval >= 0.0) ? (l_int32)(fval) : -(l_int32)(-fval);
lept_floor(fval) ==
    IF fval >= 0
    THEN { [ret |-> c.v, ub |-> c.ub] : c \in FloatToInt32(fval) }
    ELSE { [ret |-> ToInt32(-c.v), ub |-> c.ub \/ -c.v \notin l_int32] :
             c \in FloatToInt32(-fval) }

\* return (fval == (l_int32)fval ? (l_int32)fval :
\*         fval > 0.0 ? 1 + (l_int32)(fval) : -(1 + (l_int32)(-fval)));
lept_ceiling(fval) ==
    UNION { IF fval = Int32ToFloat(c.v)
            THEN { [ret |-> c.v, ub |-> c.ub] }
            ELSE IF fval > 0
            THEN { [ret |-> ToInt32(1 + c.v), ub |-> c.ub \/ 1 + c.v \notin l_int32] }
            ELSE { [ret |-> ToInt32(-ToInt32(1 + d.v)),
                    ub  |-> c.ub \/ d.ub \/ 1 + d.v \notin l_int32] :
                     d \in FloatToInt32(-fval) }
          : c \in FloatToInt32(fval) }

(***************************************************************************)
(* Gray code conversion                                                    *)
(***************************************************************************)
\* The l_uint32 values
l_uint32 == 0..(Pow2(IntBits) - 1)

\* The shift taken by two positions
convertIntToGrayCode_shift2(val) == XorInt(val \div 4, val)

\* return (val >> 1) ^ val;
convertIntToGrayCode(val) == XorInt(val \div 2, val)

\* A null pointer.
NULL == "NULL"

\* #define MAX_DEBUG_MESSAGE   2000
MAX_DEBUG_MESSAGE == 2000

\* static void lept_default_stderr_handler(const char *formatted_msg)
lept_default_stderr_handler == "lept_default_stderr_handler"

\* The NULL test left out
leptSetStderrHandler_nullStays(handler) == handler

\* leptSetStderrHandler(handler): the new value of stderr_handler.
leptSetStderrHandler(handler) ==
    IF handler # NULL THEN handler ELSE lept_default_stderr_handler

\* lept_stderr(fmt, ...) with handler h installed, d being the sequence of
\* handler invocations so far.  m.n is the value vsnprintf returns for the
\* call (the length of the whole text, negative when formatting fails);
\* msg holds at most MAX_DEBUG_MESSAGE - 1 characters of it.
lept_stderr(d, h, m) ==
    IF m.n < 0
    THEN d
    ELSE Append(d, [to |-> h, text |-> m.text,
                    len |-> L_MIN(m.n, MAX_DEBUG_MESSAGE - 1)])

\* The message of returnErrorInt(msg, procname, 1), of L_WARNING and of
\* L_INFO: "<Severity> in <procname>: <msg>", a short text.
Message(sev, procname, msg) == [text |-> <<sev, procname, msg>>, n |-> 40]

VARIABLES pc, op, args, out, i, locb, sizeb, data, fileout, randState, ub,
          fileinRead, stderr_handler, delivered, calls, thr, lock, serialized

vars == <<pc, op, args, out, i, locb, sizeb, data, fileout, randState, ub,
          fileinRead, stderr_handler, delivered, calls, thr, lock, serialized>>

\* The state that no single-call operation assigns.
untouched == <<stderr_handler, thr, lock, serialized>>

\* The state of the single call, which the concurrent callers leave alone.
callVars == <<pc, op, args, out, i, locb, sizeb, data, fileout, ub, fileinRead>>

\* One or two calls of lept_stderr in a row.
Emit(m) ==
    /\ delivered' = lept_stderr(delivered, stderr_handler, m)
    /\ calls' = Append(calls, [fn |-> "lept_stderr", arg |-> m])

Emit2(m1, m2) ==
    /\ delivered' = lept_stderr(lept_stderr(delivered, stderr_handler, m1),
                                stderr_handler, m2)
    /\ calls' = calls \o << [fn |-> "lept_stderr", arg |-> m1],
                            [fn |-> "lept_stderr", arg |-> m2] >>

\* No message.
Quiet == UNCHANGED <<delivered, calls>>

\* Arguments explored for genRandomIntOnInterval
GenEnds == {INT_MIN, INT_MIN + 1, -1, 0, 1, 5, INT_MAX - 1, INT_MAX}

GenSeeds == {-1, 0, 3}

\* loc and size as numerators over 2^FracBits, restricted to l_float32 values
Locs == {l \in -1..One : l < 0 \/ RoundSig(FltMant, l) = l}

Sizes == {s \in 0..MaxSize : RoundSig(FltMant, s) = s}

\* Arguments explored for fileReplaceBytes; a replacement holds bytes that
\* no input file holds.
ReplStarts == {-1, 0, 1, 3, INT_MAX}

ReplCounts == {-1, 0, 1, 2, INT_MAX}

ReplData == {NoData, <<201>>, <<201, 202>>}

\* The strings that are hashed: ASCII letters and bytes above 127, with the
\* build's plain char signed or unsigned.
HashChars == {97, 122, 128, 255}

Strings == UNION { [1..k -> HashChars] : k \in 0..MaxStr }

\* The files on which a failing read or a failing allocation is explored.
FailingFiles == {FileData(1, 1), FileData(5, 1)}

InitArgs(o) ==
    CASE o = "lept_isPrime" -> [n : 0..(Pow2(NBits) - 1)]
      [] o = "findNextLargerPrime" -> [start : l_int32]
      [] o = "genRandomIntOnInterval" ->
             [start : GenEnds, end : GenEnds, seed : GenSeeds]
      [] o = "fileCorruptByDeletion" ->
             { a \in [loc : Locs, size : Sizes,
                      filein : {FileData(t, p) : t \in 1..MaxTotal, p \in {1, 2}},
                      readable : BOOLEAN, mem : BOOLEAN] :
                 (~a.readable \/ ~a.mem) => a.filein \in FailingFiles }
      [] o = "fileCorruptByMutation" ->
             { a \in [loc : Locs, size : Sizes,
                      filein : {FileData(t, 1) : t \in 1..MaxTotal},
                      readable : BOOLEAN] :
                 ~a.readable => a.filein \in FailingFiles }
      [] o = "l_hashStringToUint64" -> [str : Strings, signedChar : BOOLEAN]
      [] o = "l_hashStringToUint64Fast" -> [str : Strings]
      [] o = "lept_floor" -> [fval : FloatsInIntRange]
      [] o = "lept_ceiling" -> [fval : FloatsInIntRange]
      [] o = "convertIntToGrayCode" -> [val : l_uint32]
      [] o = "fileReplaceBytes" ->
             { a \in [filein : {FileData(t, 1) : t \in 1..MaxTotal},
                      start : ReplStarts, nbytes : ReplCounts,
                      newdata : ReplData, newsize : {0, 1, 2},
                      readable : BOOLEAN, mem : BOOLEAN] :
                 /\ a.newdata # NoData => a.newsize = Len(a.newdata)
                 /\ a.newdata = NoData => a.newsize # 1
                 /\ (~a.readable \/ ~a.mem) => a.filein \in FailingFiles }

Ops == {"lept_isPrime", "findNextLargerPrime", "genRandomIntOnInterval",
        "fileCorruptByDeletion", "fileCorruptByMutation", "fileReplaceBytes",
        "l_hashStringToUint64", "l_hashStringToUint64Fast",
        "lept_floor", "lept_ceiling", "convertIntToGrayCode"}

\* The callers of the concurrent runs, at rest.
NoCallers == [t \in {1, 2} |-> [pc |-> "none"]]

\* The program is about to make one call.  The generator is in its start-up
\* state (as after srand(1)); before genRandomIntOnInterval it may be in any
\* state, before fileCorruptByMutation as after srand(1) or srand(12).  The
\* default handler is installed and nothing has been reported.
Init ==
    /\ pc = "call"
    /\ op \in Ops
    /\ args \in InitArgs(op)
    /\ randState \in CASE op = "genRandomIntOnInterval" -> 0..RAND_MAX
                       [] op = "fileCorruptByMutation" -> {srand(1), srand(12)}
                       [] OTHER -> {srand(1)}
    /\ out = [ret |-> -1]
    /\ i = 0 /\ locb = 0 /\ sizeb = 0
    /\ data = <<>>
    /\ fileout = NoFile
    /\ ub = FALSE
    /\ fileinRead = FALSE
    /\ stderr_handler = lept_default_stderr_handler
    /\ delivered = <<>>
    /\ calls = <<>>
    /\ thr = NoCallers
    /\ lock = 0
    /\ serialized = FALSE

Call_isPrime ==
    /\ pc = "call" /\ op = "lept_isPrime"
    /\ out' = isPrimeTable[args.n]
    /\ IF isPrimeTable[args.n].ret = 1
       THEN Emit(Message("Error", "lept_isPrime", "n must be > 0"))
       ELSE Quiet
    /\ pc' = "done"
    /\ UNCHANGED <<op, args, i, locb, sizeb, data, fileout, randState, ub,
                   fileinRead, untouched>>

\* findNextLargerPrime up to the first evaluation of the loop condition
Call_findNextLargerPrime ==
    /\ pc = "call" /\ op = "findNextLargerPrime"
    /\ IF args.start <= 0
       THEN /\ out' = [ret |-> 1, pprime |-> 0]
            /\ Emit(Message("Error", "findNextLargerPrime", "start must be > 0"))
            /\ pc' = "done"
            /\ UNCHANGED <<i, ub>>
       ELSE /\ out' = [ret |-> -1, pprime |-> 0]
            /\ Quiet
            /\ i' \in IntResult(args.start + 1)
            /\ ub' = (args.start + 1 \notin l_int32)
            /\ pc' = "scan"
    /\ UNCHANGED <<op, args, locb, sizeb, data, fileout, randState,
                   fileinRead, untouched>>

\* One iteration of for (i = start + 1; ; i++)
ScanStep ==
    /\ pc = "scan"
    /\ IF isPrimeTable[ToUint64(i)].ret = 1
       THEN Emit(Message("Error", "lept_isPrime", "n must be > 0"))
       ELSE Quiet
    /\ IF isPrimeTable[ToUint64(i)].is_prime = 1
       THEN /\ out' = [ret |-> 0, pprime |-> ToUint32(i)]
            /\ pc' = "done"
            /\ UNCHANGED <<i, ub>>
       ELSE /\ i' \in IntResult(ScanNext(i))
            /\ ub' = (ub \/ ScanNext(i) \notin l_int32)
            /\ UNCHANGED <<out, pc>>
    /\ UNCHANGED <<op, args, locb, sizeb, data, fileout, randState,
                   fileinRead, untouched>>

Call_genRandomIntOnInterval ==
    /\ pc = "call" /\ op = "genRandomIntOnInterval"
    /\ \E r \in genRandomIntOnInterval(args.start, args.end, args.seed, randState) :
          /\ out' = [ret |-> r.ret, pval |-> r.pval]
          /\ randState' = r.rs
          /\ ub' = r.ub
          /\ IF r.ret = 1
             THEN Emit(Message("Error", "genRandomIntOnInterval", "invalid range"))
             ELSE Quiet
    /\ pc' = "done"
    /\ UNCHANGED <<op, args, i, locb, sizeb, data, fileout, fileinRead, untouched>>

\* loc < 0.0 || loc >= 1.0, size <= 0.0
BadFraction(a) == a.loc < 0 \/ a.loc >= One \/ a.size <= 0

\* The message of the first of the two checks that fails.
BadFractionMessage(a, procname) ==
    IF a.loc < 0 \/ a.loc >= One
    THEN Message("Error", procname, "loc must be in [0.0 ... 1.0)")
    ELSE Message("Error", procname, "size must be > 0.0")

\* fileCorruptByDeletion.  Neither datain nor dataout is tested against
\* NULL and the result of l_binaryWrite is not looked at.  A store through a
\* NULL dataout ends the run.
Call_fileCorruptByDeletion ==
    /\ pc = "call" /\ op = "fileCorruptByDeletion"
    /\ IF BadFraction(args)
       THEN /\ out' = [ret |-> 1]
            /\ Emit(BadFractionMessage(args, "fileCorruptByDeletion"))
            /\ UNCHANGED <<locb, sizeb, fileout, ub, fileinRead>>
       ELSE LET datain  == l_binaryRead(args.filein, args.readable)
                inbytes == Len(datain)
            IN  \E r \in ByteRange(args.loc, args.size, inbytes) :
                  LET outbytes == OutBytes(inbytes, r.sizeb)
                      dataout  == DeletionOutput(datain, r.locb, r.sizeb)
                  IN  /\ fileinRead' = TRUE
                      /\ locb' = r.locb
                      /\ sizeb' = r.sizeb
                      /\ Emit(Message("Info", "fileCorruptByDeletion", "Removed bytes"))
                      /\ IF ~LEPT_CALLOC(outbytes, args.mem) /\ outbytes > 0
                         THEN /\ ub' = TRUE
                              /\ fileout' = fileout /\ out' = [ret |-> -1]
                         ELSE IF DeletionOutOfBounds(inbytes, r.locb, r.sizeb)
                         THEN /\ ub' = TRUE
                              /\ \/ fileout' = fileout /\ out' = [ret |-> -1]
                                 \/ /\ fileout' = l_binaryWrite(dataout, outbytes)
                                    /\ out' = [ret |-> 0]
                         ELSE /\ ub' = r.ub
                              /\ fileout' = l_binaryWrite(dataout, outbytes)
                              /\ out' = [ret |-> 0]
    /\ pc' = "done"
    /\ UNCHANGED <<op, args, i, data, randState, untouched>>

\* fileCorruptByMutation up to the first evaluation of the loop condition;
\* data is not tested against NULL.
Call_fileCorruptByMutation ==
    /\ pc = "call" /\ op = "fileCorruptByMutation"
    /\ IF BadFraction(args)
       THEN /\ out' = [ret |-> 1]
            /\ Emit(BadFractionMessage(args, "fileCorruptByMutation"))
            /\ pc' = "done"
            /\ UNCHANGED <<locb, sizeb, data, ub, fileinRead>>
       ELSE \E r \in ByteRange(args.loc, args.size,
                               Len(l_binaryRead(args.filein, args.readable))) :
              /\ fileinRead' = TRUE
              /\ locb' = r.locb
              /\ sizeb' = r.sizeb
              /\ Emit(Message("Info", "fileCorruptByMutation", "Randomizing bytes"))
              /\ ub' = r.ub
              /\ data' = l_binaryRead(args.filein, args.readable)
              /\ out' = [ret |-> -1]
              /\ pc' = "mutate"
    /\ i' = 0
    /\ UNCHANGED <<op, args, fileout, randState, untouched>>

\* One iteration of for (i = 0; i < sizeb; i++) data[locb + i] = random byte.
\* A store outside data is undefined: the run stops there, or goes on with
\* data untouched.
MutateStep ==
    /\ pc = "mutate" /\ i < sizeb
    /\ randState' = rand(randState)
    /\ IF locb + i \in 0..(Len(data) - 1)
       THEN /\ data' = [data EXCEPT ![locb + i + 1] = RandomByte(rand(randState))]
            /\ i' = i + 1
            /\ UNCHANGED <<pc, out, ub>>
       ELSE /\ ub' = TRUE
            /\ UNCHANGED data
            /\ \/ pc' = "done" /\ out' = [ret |-> -1] /\ i' = i
               \/ i' = i + 1 /\ UNCHANGED <<pc, out>>
    /\ Quiet
    /\ UNCHANGED <<op, args, locb, sizeb, fileout, fileinRead, untouched>>

\* Loop exit: l_binaryWrite(fileout, "w", data, bytes); return 0;
MutateWrite ==
    /\ pc = "mutate" /\ ~(i < sizeb)
    /\ fileout' = l_binaryWrite(data, Len(data))
    /\ out' = [ret |-> 0]
    /\ pc' = "done"
    /\ Quiet
    /\ UNCHANGED <<op, args, i, locb, sizeb, data, randState, ub,
                   fileinRead, untouched>>

\* fileReplaceBytes.  An overflow, or an access outside datain or dataout,
\* is undefined: the run stops there, or goes on to write the buffer that
\* one of the two treatments of the overflowing counter leaves.
Call_fileReplaceBytes ==
    /\ pc = "call" /\ op = "fileReplaceBytes"
    /\ fileinRead' = TRUE
    /\ LET datain == l_binaryRead(args.filein, args.readable)
           r == fileReplaceBytes(datain, args.start, args.nbytes,
                                 args.newdata, args.newsize, FALSE)
           Undefined(x) == \/ x.ovf
                           \/ x.reads \ (0..(Len(datain) - 1)) # {}
                           \/ x.writes \ (0..(x.outbytes - 1)) # {}
           warning == Message("Warning", "fileReplaceBytes",
                              "start + nbytes > length(filein)")
           failure == Message("Error", "fileReplaceBytes", "calloc fail for dataout")
           result(ret, x) == [ret |-> ret, outbytes |-> x.outbytes,
                              reads |-> x.reads, writes |-> x.writes]
       IN  IF ~LEPT_CALLOC(r.outbytes, args.mem)
           THEN /\ out' = [ret |-> 1, outbytes |-> r.outbytes,
                           reads |-> {}, writes |-> {}]
                /\ IF r.warn THEN Emit2(warning, failure) ELSE Emit(failure)
                /\ ub' = (args.start + args.nbytes \notin l_int32)
                /\ UNCHANGED fileout
           ELSE /\ IF r.warn THEN Emit(warning) ELSE Quiet
                /\ IF Undefined(r)
                   THEN /\ ub' = TRUE
                        /\ \/ fileout' = fileout /\ out' = result(-1, r)
                           \/ \E wide \in BOOLEAN :
                                LET x == fileReplaceBytes(datain, args.start,
                                             args.nbytes, args.newdata,
                                             args.newsize, wide)
                                IN  /\ fileout' = l_binaryWrite(x.dataout, x.outbytes)
                                    /\ out' = result(0, x)
                   ELSE /\ ub' = FALSE
                        /\ fileout' = l_binaryWrite(r.dataout, r.outbytes)
                        /\ out' = result(0, r)
    /\ pc' = "done"
    /\ UNCHANGED <<op, args, i, locb, sizeb, data, randState, untouched>>

Call_hashStringToUint64 ==
    /\ pc = "call" /\ op = "l_hashStringToUint64"
    /\ out' = l_hashStringToUint64(args.str, args.signedChar)
    /\ IF args.str = <<>>
       THEN Emit(Message("Error", "l_hashStringToUint64", "str not defined or empty"))
       ELSE Quiet
    /\ pc' = "done"
    /\ UNCHANGED <<op, args, i, locb, sizeb, data, fileout, randState, ub,
                   fileinRead, untouched>>

Call_hashStringToUint64Fast ==
    /\ pc = "call" /\ op = "l_hashStringToUint64Fast"
    /\ out' = l_hashStringToUint64Fast(args.str)
    /\ IF args.str = <<>>
       THEN Emit(Message("Error", "l_hashStringToUint64Fast", "str not defined or empty"))
       ELSE Quiet
    /\ pc' = "done"
    /\ UNCHANGED <<op, args, i, locb, sizeb, data, fileout, randState, ub,
                   fileinRead, untouched>>

Call_floor ==
    /\ pc = "call" /\ op = "lept_floor"
    /\ \E r \in lept_floor(args.fval) :
          /\ out' = [ret |-> r.ret]
          /\ ub' = r.ub
    /\ Quiet
    /\ pc' = "done"
    /\ UNCHANGED <<op, args, i, locb, sizeb, data, fileout, randState,
                   fileinRead, untouched>>

Call_ceiling ==
    /\ pc = "call" /\ op = "lept_ceiling"
    /\ \E r \in lept_ceiling(args.fval) :
          /\ out' = [ret |-> r.ret]
          /\ ub' = r.ub
    /\ Quiet
    /\ pc' = "done"
    /\ UNCHANGED <<op, args, i, locb, sizeb, data, fileout, randState,
                   fileinRead, untouched>>

Call_convertIntToGrayCode ==
    /\ pc = "call" /\ op = "convertIntToGrayCode"
    /\ out' = [ret |-> convertIntToGrayCode(args.val)]
    /\ Quiet
    /\ pc' = "done"
    /\ UNCHANGED <<op, args, i, locb, sizeb, data, fileout, randState, ub,
                   fileinRead, untouched>>

Next ==
    \/ Call_isPrime
    \/ Call_findNextLargerPrime
    \/ ScanStep
    \/ Call_genRandomIntOnInterval
    \/ Call_fileCorruptByDeletion
    \/ Call_fileCorruptByMutation
    \/ MutateStep
    \/ MutateWrite
    \/ Call_fileReplaceBytes
    \/ Call_hashStringToUint64
    \/ Call_hashStringToUint64Fast
    \/ Call_floor
    \/ Call_ceiling
    \/ Call_convertIntToGrayCode

Spec == Init /\ [][Next]_vars

\* findNextLargerPrime alone: a call runs to completion on the caller's
\* thread, so each step that is enabled is eventually taken.
ScanInit == Init /\ op = "findNextLargerPrime"

ScanNextStep == Call_findNextLargerPrime \/ ScanStep

ScanSpec == ScanInit /\ [][ScanNextStep]_vars /\ WF_vars(ScanNextStep)

(***************************************************************************)
(* Two callers on two threads.  Each makes one call of                     *)
(* genRandomIntOnInterval or of fileCorruptByMutation; the generator is    *)
(* the one of the process.  srand() and rand() are each atomic (glibc      *)
(* locks its generator), everything else a caller does is local to it.     *)
(* In a serialized run the callers hold a mutex of their own around the    *)
(* whole call (lock is its holder, 0 when free).  cut records, for a       *)
(* caller between its srand() and its rand(), that the other caller has    *)
(* reseeded or drawn in between.                                           *)
(***************************************************************************)
Callers == {1, 2}

Caller(o, a) ==
    [pc |-> "call", op |-> o, args |-> a, ret |-> -1, val |-> 0, cut |-> FALSE,
     data |-> <<>>, locb |-> 0, sizeb |-> 0, i |-> 0, fileout |-> NoFile]

\* The calls the two callers make
RaceCalls ==
    { Caller("genRandomIntOnInterval", a) :
        a \in [start : {0}, end : {0, INT_MAX - 1}, seed : {0, 3, 7}] }
      \cup
    { Caller("fileCorruptByMutation", a) :
        a \in [loc : {0}, size : {Half, One}, filein : {FileData(2, 1)},
               readable : {TRUE}] }

RaceInit ==
    /\ pc = "idle" /\ op = "none" /\ args = <<>>
    /\ out = [ret |-> -1]
    /\ i = 0 /\ locb = 0 /\ sizeb = 0
    /\ data = <<>>
    /\ fileout = NoFile
    /\ ub = FALSE
    /\ fileinRead = FALSE
    /\ stderr_handler = lept_default_stderr_handler
    /\ delivered = <<>>
    /\ calls = <<>>
    /\ randState = srand(1)
    /\ thr \in [Callers -> RaceCalls]
    /\ lock = 0
    /\ serialized \in BOOLEAN

\* Caller t moves to the state c; when the step reseeds or draws, every
\* other caller that has reseeded and not yet drawn is cut.
Step(t, c, touches) ==
    thr' = [u \in Callers |->
              IF u = t THEN c
              ELSE IF touches /\ thr[u].pc = "draw"
                   THEN [thr[u] EXCEPT !.cut = TRUE]
                   ELSE thr[u]]

\* The callers' mutex, taken before the call and released after it
Acquire(t) == (serialized => lock = 0) /\ lock' = IF serialized THEN t ELSE lock

Release(t) == lock' = IF serialized THEN 0 ELSE lock

\* genRandomIntOnInterval up to and including 'if (seed > 0) srand(seed);'
Gen_Reseed(t) ==
    /\ thr[t].pc = "call" /\ thr[t].op = "genRandomIntOnInterval"
    /\ IF thr[t].args.end < thr[t].args.start
       THEN /\ serialized => lock = 0
            /\ Step(t, [thr[t] EXCEPT !.pc = "done", !.ret = 1], FALSE)
            /\ Emit(Message("Error", "genRandomIntOnInterval", "invalid range"))
            /\ UNCHANGED <<randState, lock>>
       ELSE /\ Acquire(t)
            /\ randState' = Reseed(thr[t].args.seed, randState)
            /\ Step(t, [thr[t] EXCEPT !.pc = "draw"], thr[t].args.seed > 0)
            /\ Quiet
    /\ UNCHANGED <<callVars, stderr_handler, serialized>>

\* The rest of genRandomIntOnInterval: rand() and the value
Gen_Draw(t) ==
    /\ thr[t].pc = "draw"
    /\ \E r \in genRandomIntOnInterval(thr[t].args.start, thr[t].args.end,
                                       0, randState) :
          /\ randState' = r.rs
          /\ Step(t, [thr[t] EXCEPT !.pc = "done", !.ret = r.ret, !.val = r.pval],
                  TRUE)
    /\ Release(t)
    /\ Quiet
    /\ UNCHANGED <<callVars, stderr_handler, serialized>>

\* fileCorruptByMutation up to the first evaluation of the loop condition
Mut_Call(t) ==
    /\ thr[t].pc = "call" /\ thr[t].op = "fileCorruptByMutation"
    /\ IF BadFraction(thr[t].args)
       THEN /\ serialized => lock = 0
            /\ Step(t, [thr[t] EXCEPT !.pc = "done", !.ret = 1], FALSE)
            /\ Emit(BadFractionMessage(thr[t].args, "fileCorruptByMutation"))
            /\ UNCHANGED lock
       ELSE /\ Acquire(t)
            /\ \E r \in ByteRange(thr[t].args.loc, thr[t].args.size,
                       Len(l_binaryRead(thr[t].args.filein, thr[t].args.readable))) :
                  Step(t, [thr[t] EXCEPT
                             !.pc = "mutate", !.locb = r.locb, !.sizeb = r.sizeb,
                             !.i = 0,
                             !.data = l_binaryRead(thr[t].args.filein,
                                                   thr[t].args.readable)],
                       FALSE)
            /\ Emit(Message("Info", "fileCorruptByMutation", "Randomizing bytes"))
    /\ UNCHANGED <<callVars, randState, stderr_handler, serialized>>

\* One iteration of the loop of fileCorruptByMutation
Mut_Step(t) ==
    /\ thr[t].pc = "mutate" /\ thr[t].i < thr[t].sizeb
    /\ thr[t].locb + thr[t].i \in 0..(Len(thr[t].data) - 1)
    /\ randState' = rand(randState)
    /\ Step(t, [thr[t] EXCEPT
                  !.data[thr[t].locb + thr[t].i + 1] = RandomByte(rand(randState)),
                  !.i = thr[t].i + 1],
            TRUE)
    /\ Quiet
    /\ UNCHANGED <<callVars, lock, stderr_handler, serialized>>

\* Loop exit: l_binaryWrite(fileout, "w", data, bytes); return 0;
Mut_Write(t) ==
    /\ thr[t].pc = "mutate" /\ ~(thr[t].i < thr[t].sizeb)
    /\ Step(t, [thr[t] EXCEPT
                  !.fileout = l_binaryWrite(thr[t].data, Len(thr[t].data)),
                  !.ret = 0, !.pc = "done"],
            FALSE)
    /\ Release(t)
    /\ Quiet
    /\ UNCHANGED <<callVars, randState, stderr_handler, serialized>>

RaceNext ==
    \E t \in Callers :
        \/ Gen_Reseed(t)
        \/ Gen_Draw(t)
        \/ Mut_Call(t)
        \/ Mut_Step(t)
        \/ Mut_Write(t)

RaceSpec == RaceInit /\ [][RaceNext]_vars

(***************************************************************************)
(* The message sink on its own: any sequence of leptSetStderrHandler and   *)
(* lept_stderr calls made by one thread.                                   *)
(***************************************************************************)
\* void send_to_devnull(const char *msg), void send_to_syslog(const char *msg):
\* the two callbacks of the comment above lept_default_stderr_handler
Handlers == {NULL, "send_to_devnull", "send_to_syslog"}

\* Texts passed to lept_stderr: a short one, one longer than msg[], and one
\* that vsnprintf fails to format
SinkMessages == [text : {"a", "b"}, n : {-1, 5, MAX_DEBUG_MESSAGE + 500}]

StderrInit ==
    /\ pc = "idle" /\ op = "none" /\ args = <<>>
    /\ out = [ret |-> -1]
    /\ i = 0 /\ locb = 0 /\ sizeb = 0
    /\ data = <<>>
    /\ fileout = NoFile
    /\ ub = FALSE
    /\ fileinRead = FALSE
    /\ randState = srand(1)
    /\ thr = NoCallers
    /\ lock = 0
    /\ serialized = FALSE
    /\ stderr_handler = lept_default_stderr_handler
    /\ delivered = <<>>
    /\ calls = <<>>

Call_leptSetStderrHandler ==
    /\ Len(calls) < MaxCalls
    /\ \E handler \in Handlers :
          /\ stderr_handler' = leptSetStderrHandler(handler)
          /\ calls' = Append(calls, [fn |-> "leptSetStderrHandler", arg |-> handler])
    /\ UNCHANGED <<callVars, randState, delivered, thr, lock, serialized>>

Call_lept_stderr ==
    /\ Len(calls) < MaxCalls
    /\ \E m \in SinkMessages : Emit(m)
    /\ UNCHANGED <<callVars, randState, stderr_handler, thr, lock, serialized>>

StderrNext ==
    \/ Call_leptSetStderrHandler
    \/ Call_lept_stderr

StderrSpec == StderrInit /\ [][StderrNext]_vars

(***************************************************************************)
(* Arithmetic vocabulary of the properties                                 *)
(***************************************************************************)
Divides(d, n) == n % d = 0

TruePrime(n) == n >= 2 /\ \A d \in 2..(n - 1) : ~Divides(d, n)

Composite(n) == n >= 4 /\ ~TruePrime(n)

SmallestDivisor(n) == CHOOSE d \in 2..n : Divides(d, n) /\ \A e \in 2..(d - 1) : ~Divides(e, n)

Done(o) == pc = "done" /\ op = o

(***************************************************************************)
(* C1.  For start <= end, every seed and every value rand() can return,    *)
(* genRandomIntOnInterval succeeds with start <= val <= end.               *)
(***************************************************************************)
C1_ValueInInterval ==
    (Done("genRandomIntOnInterval") /\ args.start <= args.end)
        => (out.ret = 0 /\ args.start <= out.pval /\ out.pval <= args.end)

(***************************************************************************)
(* C2.  For every composite n >= 4, lept_isPrime reports not-prime with    *)
(* factor the smallest divisor of n greater than 1.                        *)
(***************************************************************************)
C2_CompositeSmallestFactor ==
    (Done("lept_isPrime") /\ Composite(args.n))
        => (out.ret = 0 /\ out.is_prime = 0 /\ out.pfactor = SmallestDivisor(args.n))

(***************************************************************************)
(* C3.  For every start > 0, findNextLargerPrime returns the smallest true *)
(* prime strictly greater than start.                                      *)
(***************************************************************************)
C3_NextTruePrime ==
    (Done("findNextLargerPrime") /\ args.start > 0)
        => /\ out.ret = 0
           /\ out.pprime > args.start
           /\ TruePrime(out.pprime)
           /\ \A m \in (args.start + 1)..(out.pprime - 1) : ~TruePrime(m)

(***************************************************************************)
(* C4.  The scan of findNextLargerPrime ends with a result p > start that  *)
(* lept_isPrime classifies prime, no integer strictly between start and p  *)
(* being classified prime.                                                 *)
(***************************************************************************)
ScanResultOK ==
    /\ out.ret = 0
    /\ out.pprime > args.start
    /\ lept_isPrime(out.pprime).is_prime = 1
    /\ \A m \in (args.start + 1)..(out.pprime - 1) : lept_isPrime(m).is_prime = 0

\* Some l_int32 above start is classified prime.
ClassifiedPrimeAbove(start) ==
    \E m \in (start + 1)..INT_MAX : lept_isPrime(m).is_prime = 1

OddDivisorsBelowRoot(n) ==
    {d \in 3..(isqrt(n) - 1) : d % 2 = 1 /\ Divides(d, n)}

C6_TrialDivisionExact ==
    (Done("lept_isPrime") /\ args.n > 0 /\ args.n % 2 = 1)
        => /\ out.ret = 0
           /\ (out.is_prime = 0) <=> (OddDivisorsBelowRoot(args.n) # {})
           /\ out.is_prime = 0 =>
                 /\ out.pfactor \in OddDivisorsBelowRoot(args.n)
                 /\ \A d \in OddDivisorsBelowRoot(args.n) : out.pfactor <= d
           /\ out.is_prime = 1 => out.pfactor = 0

(***************************************************************************)
(* Vocabulary of the file-corruption properties                            *)
(***************************************************************************)
total == Len(args.filein)

FileOp == op \in {"fileCorruptByDeletion", "fileCorruptByMutation"}

\* A file operation with valid loc and size that has computed its byte range
RangeComputed ==
    FileOp /\ pc \in {"mutate", "done"} /\ ~BadFraction(args) /\ args.readable

(***************************************************************************)
(* C7.  For every input of total >= 1 bytes and valid (loc, size),         *)
(* fileCorruptByDeletion writes total - count bytes: input [0, offset)     *)
(* followed by input [offset + count, total).                              *)
(***************************************************************************)
C7_DeletionSplice ==
    (Done("fileCorruptByDeletion") /\ ~BadFraction(args)
                                   /\ args.readable /\ args.mem)
        => /\ out.ret = 0
           /\ Len(fileout) = total - sizeb
           /\ fileout = SubSeq(args.filein, 1, locb)
                           \o SubSeq(args.filein, locb + sizeb + 1, total)

(***************************************************************************)
(* C8.  For total >= 1, loc in [0,1) and size > 0 the byte range of both   *)
(* corruption functions satisfies 0 <= offset <= total - 1, count >= 1 and *)
(* offset + count <= total.                                                *)
(***************************************************************************)
C8_RangeInsideBuffer ==
    RangeComputed
        => (0 <= locb /\ locb <= total - 1 /\ sizeb >= 1 /\ locb + sizeb <= total)

(***************************************************************************)
(* C9.  Whenever loc + size >= 1.0 the affected range runs to the end of   *)
(* the file: offset + count = total, and the output of the deletion is     *)
(* exactly input [0, offset).                                              *)
(***************************************************************************)
C9_RangeRunsToEnd ==
    (RangeComputed /\ args.loc + args.size >= One)
        => /\ locb + sizeb = total
           /\ (Done("fileCorruptByDeletion") /\ args.mem)
                 => fileout = SubSeq(args.filein, 1, locb)

(***************************************************************************)
(* C10.  fileCorruptByMutation writes an output of the length of the input *)
(* in which every byte outside [offset, offset + count) is the input byte. *)
(***************************************************************************)
C10_MutationFrame ==
    (Done("fileCorruptByMutation") /\ ~BadFraction(args) /\ args.readable)
        => /\ out.ret = 0
           /\ Len(fileout) = total
           /\ \A k \in 1..total :
                 (k - 1 \notin locb..(locb + sizeb - 1)) => fileout[k] = args.filein[k]

(***************************************************************************)
(* Vocabulary of the byte-replacement properties                           *)
(***************************************************************************)
\* The replacement and its length m (empty when newdata is absent)
Replacement == IF args.newdata = NoData THEN <<>> ELSE args.newdata

\* fileReplaceBytes has returned from a call that could read filein and had
\* memory for dataout
Replaced == Done("fileReplaceBytes") /\ args.readable /\ args.mem

(***************************************************************************)
(* C11.  For an input of length L, start >= 0 and count >= 0 with          *)
(* start + count <= L and a replacement of length m, fileReplaceBytes      *)
(* writes L - count + m bytes: input [0, start), the replacement, then     *)
(* input [start + count, L).  With m = count the length is L and every     *)
(* byte outside [start, start + count) is the input byte.                  *)
(***************************************************************************)
C11_ReplaceSplice ==
    (Replaced /\ args.start >= 0 /\ args.nbytes >= 0
              /\ args.start + args.nbytes <= total)
        => /\ out.ret = 0
           /\ Len(fileout) = total - args.nbytes + Len(Replacement)
           /\ fileout = SubSeq(args.filein, 1, args.start)
                           \o Replacement
                           \o SubSeq(args.filein, args.start + args.nbytes + 1, total)
           /\ Len(Replacement) = args.nbytes =>
                 /\ Len(fileout) = total
                 /\ \A k \in 1..total :
                       (k - 1 \notin args.start..(args.start + args.nbytes - 1))
                           => fileout[k] = args.filein[k]

(***************************************************************************)
(* C12.  When start + count exceeds the input length L, fileReplaceBytes   *)
(* emits a warning, does not abort, and stays inside its buffers: it reads *)
(* no input index >= L, writes no output index >= the allocated length,    *)
(* and the output length neither goes negative nor wraps around.           *)
(***************************************************************************)
Warned == \E k \in 1..Len(delivered) : delivered[k].text[1] = "Warning"

C12_OverrunStaysInBounds ==
    (Replaced /\ args.start >= 0 /\ args.nbytes >= 0
              /\ args.start + args.nbytes > total)
        => /\ Warned
           /\ out.ret = 0
           /\ out.reads \subseteq 0..(total - 1)
           /\ out.writes \subseteq 0..(out.outbytes - 1)
           /\ out.outbytes = total - args.nbytes + Len(Replacement)

(***************************************************************************)
(* C13.  A call with an invalid argument (an empty string to either string *)
(* hash, n = 0 to lept_isPrime, start <= 0 to findNextLargerPrime,         *)
(* end < start to genRandomIntOnInterval, loc outside [0,1) or size <= 0   *)
(* to either corruption function) fails before any work: it returns 1,     *)
(* every output value is 0, the generator is neither reseeded nor          *)
(* advanced, and no file is read or written.                               *)
(***************************************************************************)
InvalidArgument ==
    \/ op \in {"l_hashStringToUint64", "l_hashStringToUint64Fast"} /\ args.str = <<>>
    \/ op = "lept_isPrime" /\ args.n = 0
    \/ op = "findNextLargerPrime" /\ args.start <= 0
    \/ op = "genRandomIntOnInterval" /\ args.end < args.start
    \/ op \in {"fileCorruptByDeletion", "fileCorruptByMutation"} /\ BadFraction(args)

OutputsZero(o) ==
    CASE op \in {"l_hashStringToUint64", "l_hashStringToUint64Fast"} ->
             o.phash = ToDigits(0)
      [] op = "lept_isPrime" -> o.is_prime = 0 /\ o.pfactor = 0
      [] op = "findNextLargerPrime" -> o.pprime = 0
      [] op = "genRandomIntOnInterval" -> o.pval = 0
      [] OTHER -> TRUE

C13_CheckedBeforeWork ==
    [][(pc = "call" /\ InvalidArgument)
          => /\ pc' = "done"
             /\ out'.ret = 1
             /\ OutputsZero(out')
             /\ randState' = randState
             /\ fileinRead' = FALSE
             /\ fileout' = NoFile]_vars

C13_Witness ==
    /\ Done("genRandomIntOnInterval")
    /\ args.end < args.start /\ args.seed > 0
    /\ out.ret = 1 /\ out.pval = 0
    /\ randState \notin {srand(args.seed), rand(srand(args.seed))}

(***************************************************************************)
(* C14.  In fileCorruptByDeletion, fileCorruptByMutation and               *)
(* fileReplaceBytes, when the input file cannot be read or the output      *)
(* buffer cannot be allocated, the call returns an error and writes        *)
(* nothing to the output path; 0 is returned only when the output was      *)
(* written.                                                                *)
(***************************************************************************)
Transform ==
    op \in {"fileCorruptByDeletion", "fileCorruptByMutation", "fileReplaceBytes"}

ReadFailed == ~args.readable

AllocFailed == op \in {"fileCorruptByDeletion", "fileReplaceBytes"} /\ ~args.mem

C14_NoOutputOnFailure ==
    (pc = "done" /\ Transform /\ fileinRead)
        => /\ (ReadFailed \/ AllocFailed) => (out.ret = 1 /\ fileout = NoFile)
           /\ out.ret = 0 => fileout # NoFile

(***************************************************************************)
(* C15.  For every non-empty string s, l_hashStringToUint64 returns the    *)
(* value obtained from 104395301 by hash += (b * M) XOR (hash >> 7) for    *)
(* each byte b of s in order, M = 26544357894361247, finished by           *)
(* hash XOR (hash << 37), all modulo 2^64.                                 *)
(***************************************************************************)
RECURSIVE ByteFold(_, _)
ByteFold(s, hash) ==
    IF s = <<>> THEN hash
    ELSE ByteFold(Tail(s),
                  Add64(hash, Xor64(Mul64(ToDigits(Head(s)), mulp), Shr64(hash, 7))))

StringHashValue(s) ==
    LET hash == ByteFold(s, ToDigits(104395301))
    IN  Xor64(hash, Shl64(hash, 37))

C15_HashFormula ==
    (Done("l_hashStringToUint64") /\ args.str # <<>>)
        => (out.ret = 0 /\ out.phash = StringHashValue(args.str))

SeededDone(t) ==
    /\ thr[t].pc = "done" /\ thr[t].op = "genRandomIntOnInterval"
    /\ thr[t].args.seed > 0

\* The values of the same call made alone
AloneValues(t) ==
    { r.pval : r \in genRandomIntOnInterval(thr[t].args.start, thr[t].args.end,
                                            thr[t].args.seed, srand(1)) }

C17_SeededValueUnlessCut ==
    \A t \in Callers :
        SeededDone(t) =>
            /\ thr[t].ret = 0
            /\ thr[t].val \notin AloneValues(t) => (~serialized /\ thr[t].cut)
            /\ serialized => thr[t].val \in AloneValues(t)

C17_Witness ==
    /\ ~serialized
    /\ \E t \in Callers : SeededDone(t) /\ thr[t].cut /\ thr[t].val \notin AloneValues(t)
    /\ \A t \in Callers : thr[t].pc = "done"

(***************************************************************************)
(* C18.  After any sequence of leptSetStderrHandler calls, every message   *)
(* that lept_stderr has formatted is delivered exactly once, and only to   *)
(* the handler installed by the most recent leptSetStderrHandler call      *)
(* before it: the default handler when there was none or when that call    *)
(* passed NULL.  Earlier handlers never receive it.                        *)
(***************************************************************************)
\* Positions in the history of the lept_stderr calls that formatted a message
Emitted == { k \in 1..Len(calls) : calls[k].fn = "lept_stderr" /\ calls[k].arg.n >= 0 }

\* The handler requested by the last leptSetStderrHandler call before call k
LastInstalled(k) ==
    LET sets == { j \in 1..(k - 1) : calls[j].fn = "leptSetStderrHandler" }
    IN  IF sets = {} THEN lept_default_stderr_handler
        ELSE LET j == CHOOSE x \in sets : \A y \in sets : y <= x
             IN  IF calls[j].arg = NULL THEN lept_default_stderr_handler
                 ELSE calls[j].arg

\* The number of the delivery that belongs to the emitted call k
DeliveryOf(k) == Cardinality({ j \in Emitted : j <= k })

C18_LastWriterWins ==
    /\ Len(delivered) = Cardinality(Emitted)
    /\ \A k \in Emitted :
          /\ delivered[DeliveryOf(k)].to = LastInstalled(k)
          /\ delivered[DeliveryOf(k)].text = calls[k].arg.text
    /\ stderr_handler = LastInstalled(Len(calls) + 1)

C18_Witness ==
    /\ Len(delivered) = 2
    /\ delivered[1].to = "send_to_devnull"
    /\ delivered[2].to = "send_to_syslog"
    /\ stderr_handler = "send_to_syslog"

(***************************************************************************)
(* C19.  For every fval within the range of l_int32, positive or negative, *)
(* integral or not, lept_floor(fval) is the largest integer not greater    *)
(* than fval and lept_ceiling(fval) is the smallest integer not less than  *)
(* fval.                                                                   *)
(***************************************************************************)
\* The largest integer not greater than f / 2^FracBits
Floor(f) == CHOOSE n \in l_int32 : n * One <= f /\ f < (n + 1) * One

\* The smallest integer not less than f / 2^FracBits
Ceiling(f) == CHOOSE n \in l_int32 : (n - 1) * One < f /\ f <= n * One

C19_FloorAndCeiling ==
    /\ (Done("lept_floor") /\ ~ub) => out.ret = Floor(args.fval)
    /\ (Done("lept_ceiling") /\ ~ub) => out.ret = Ceiling(args.fval)

(***************************************************************************)
(* C20.  For every l_uint32 val below the maximum, the gray codes of val   *)
(* and of val + 1 differ in exactly one bit position.                      *)
(***************************************************************************)
\* The number of one bits of x
RECURSIVE BitCount(_)
BitCount(x) == IF x = 0 THEN 0 ELSE (x % 2) + BitCount(x \div 2)

C20_SuccessorsDifferInOneBit ==
    (Done("convertIntToGrayCode") /\ args.val + 1 \in l_uint32)
        => BitCount(XorInt(out.ret, convertIntToGrayCode(args.val + 1))) = 1

C20_Witness ==
    /\ Done("convertIntToGrayCode")
    /\ args.val = 7
    /\ out.ret = 4
    /\ convertIntToGrayCode(args.val + 1) = 12

(***************************************************************************)
(* C21.  Every odd n >= 3 that lept_isPrime classifies as prime is a true  *)
(* prime or the perfect square of a prime; no other composite is declared  *)
(* prime.                                                                  *)
(***************************************************************************)
PrimeSquare(n) == \E p \in 2..n : p * p = n /\ TruePrime(p)

C21_OnlyPrimeSquaresMisclassified ==
    (Done("lept_isPrime") /\ args.n >= 3 /\ args.n % 2 = 1 /\ out.is_prime = 1)
        => (TruePrime(args.n) \/ PrimeSquare(args.n))

====
